---- MODULE Spec2Model ----
(***************************************************************************)
(* Model of the BigQuery database/sql driver's value conversion            *)
(* (bigQueryColumn.ConvertValue, createBigQuerySchema) and of the          *)
(* statement entry points with the rerouting protocol                      *)
(* (bigQueryStatement.QueryContext / Query / ExecContext / Exec).          *)
(*                                                                         *)
(* The source tree holds three versions of ConvertValue:                   *)
(*   "columns"   src/driver/columns.go    (TIME -> time.Time on today)     *)
(*   "part000"   src/unnamed/part_000     (TIME -> formatted string)       *)
(*   "statement" src/driver/statement.go  (no temporal coercion, no        *)
(*                                         FieldType on the column)        *)
(* The variable `variant` says which one is built; it never changes.       *)
(***************************************************************************)
EXTENDS Integers, Sequences, FiniteSets, TLC

VARIABLES
    variant,    \* which version of ConvertValue / createBigQuerySchema is built
    clock,      \* the day time.Now() reports (index into Days)
    input,      \* SpecConvert: the (column, raw value) pair under conversion
    conv,       \* SpecConvert: result of the latest ConvertValue call on input
    first,      \* SpecConvert: result of the first ConvertValue call on input
    rows,       \* the open bigQueryRows cursor, or NoRows
    held,       \* the value the caller keeps to bind to a reroute query
    last,       \* outcome of the latest statement call
    lastRow,    \* the latest row read from the cursor, with its conversions
    sent,       \* query texts handed to the remote executor (buildQuery/Read)
    pending,    \* the remote read in flight, or NoCall
    cancelled   \* the caller's context was cancelled while the read is pending

vars == <<variant, clock, input, conv, first, rows, held, last, lastRow, sent,
          pending, cancelled>>

convVars == <<input, conv, first>>
driverVars == <<rows, held, last, lastRow, sent, pending, cancelled>>

----------------------------------------------------------------------------
(* Bounds of the model *)

\* most bind arguments given to one statement call
MaxArgs == 2
\* number of days the clock can advance past the first
MaxTicks == 1

----------------------------------------------------------------------------
(* Values.  Every Go value is a record tagged with its dynamic type. *)

Variants == {"columns", "part000", "statement"}

Nil == [kind |-> "nil"]
Str(chars) == [kind |-> "string", chars |-> chars]
Slice(elems) == [kind |-> "[]bigquery.Value", elems |-> elems]
CivilDate(y, m, d) == [kind |-> "civil.Date", Year |-> y, Month |-> m, Day |-> d]
CivilTime(h, mi, s, ns) ==
    [kind |-> "civil.Time", Hour |-> h, Minute |-> mi, Second |-> s, Nanosecond |-> ns]
CivilDateTime(date, time) == [kind |-> "civil.DateTime", Date |-> date, Time |-> time]

IsSlice(value) == value.kind = "[]bigquery.Value"

\* adaptor.RerouteQuery, the sentinel statement text
RerouteQuery == "$$reroute$$"
SelectQuery == "SELECT * FROM t"
Queries == {RerouteQuery, SelectQuery}

\* the day time.Now().UTC() reports at each clock value
Days == <<[Year |-> 2024, Month |-> 2, Day |-> 29],
          [Year |-> 2024, Month |-> 3, Day |-> 1],
          [Year |-> 2024, Month |-> 3, Day |-> 2],
          [Year |-> 2024, Month |-> 3, Day |-> 3]>>
Now(c) == Days[c]

----------------------------------------------------------------------------
(* time.Date and Time.Format, as the Go library computes them *)

IsLeap(y) == (y % 4 = 0 /\ y % 100 # 0) \/ y % 400 = 0

DaysIn(y, m) ==
    IF m = 2 THEN (IF IsLeap(y) THEN 29 ELSE 28)
    ELSE IF m \in {4, 6, 9, 11} THEN 30 ELSE 31

RECURSIVE NormDay(_, _, _)
NormDay(y, m, d) ==
    IF d > DaysIn(y, m)
      THEN (IF m = 12 THEN NormDay(y + 1, 1, d - DaysIn(y, m))
                      ELSE NormDay(y, m + 1, d - DaysIn(y, m)))
    ELSE IF d < 1
      THEN (IF m = 1 THEN NormDay(y - 1, 12, d + DaysIn(y - 1, 12))
                     ELSE NormDay(y, m - 1, d + DaysIn(y, m - 1)))
    ELSE [Year |-> y, Month |-> m, Day |-> d]

\* time.Date(y, mo, d, h, mi, s, ns, time.UTC): out-of-range fields carry over
time_Date(y, mo, d, h, mi, s, ns) ==
    LET s1 == s + (ns \div 1000000000)
        mi1 == mi + (s1 \div 60)
        h1 == h + (mi1 \div 60)
        y1 == y + ((mo - 1) \div 12)
        mo1 == ((mo - 1) % 12) + 1
        day == NormDay(y1, mo1, d + (h1 \div 24))
    IN  [kind |-> "time.Time", Year |-> day.Year, Month |-> day.Month,
         Day |-> day.Day, Hour |-> h1 % 24, Minute |-> mi1 % 60,
         Second |-> s1 % 60, Nanosecond |-> ns % 1000000000, Loc |-> "UTC"]

Digit(n) == <<"0", "1", "2", "3", "4", "5", "6", "7", "8", "9">>[n + 1]
TwoDigits(n) == <<Digit((n \div 10) % 10), Digit(n % 10)>>
SixDigits(n) ==
    <<Digit((n \div 100000) % 10), Digit((n \div 10000) % 10),
      Digit((n \div 1000) % 10), Digit((n \div 100) % 10),
      Digit((n \div 10) % 10), Digit(n % 10)>>

\* t.Format(BigQueryTimeLayout) with BigQueryTimeLayout = "15:04:05.000000":
\* the fraction is truncated to microseconds
FormatTimeLayout(t) ==
    Str(TwoDigits(t.Hour) \o <<":">> \o TwoDigits(t.Minute) \o <<":">>
        \o TwoDigits(t.Second) \o <<".">> \o SixDigits(t.Nanosecond \div 1000))

----------------------------------------------------------------------------
(* Adaptors (package adaptor is outside the sources: an adaptor is a value *)
(* the caller supplies; "wrap" succeeds, "fail" returns an error)          *)

Ok(value) == [value |-> value, err |-> "nil"]
Failed(msg) == [value |-> Nil, err |-> msg]

\* SchemaColumnAdaptor.AdaptValue(value)
AdaptValue(columnAdaptor, value) ==
    IF columnAdaptor = "wrap" THEN Ok([kind |-> "adapted", of |-> value])
    ELSE Failed("adaptor failed")

\* a SchemaAdaptor: nil, or a lookup from column name to column adaptor
NilSchemaAdaptor == [isNil |-> TRUE, cols |-> <<>>]
SchemaAdaptor(cols) == [isNil |-> FALSE, cols |-> cols]

\* SchemaAdaptor.GetColumnAdaptor(name); "nil" when the name has no adaptor
GetColumnAdaptor(schemaAdaptor, name) ==
    IF \E i \in 1..Len(schemaAdaptor.cols) : schemaAdaptor.cols[i][1] = name
      THEN LET i == CHOOSE j \in 1..Len(schemaAdaptor.cols) :
                        schemaAdaptor.cols[j][1] = name
           IN  schemaAdaptor.cols[i][2]
      ELSE "nil"

----------------------------------------------------------------------------
(* bigQueryColumn.ConvertValue *)

bigQueryReroutedColumn(values, schema) ==
    [kind |-> "bigQueryReroutedColumn", values |-> values, schema |-> schema]

IsToken(value) == value.kind = "bigQueryReroutedColumn"

\* mutant: a sequence of records is wrapped again
WrapRows_Always(values) ==
    IF Len(values) > 0 THEN <<Slice(values)>> ELSE values

\* if len(values) > 0 and values[0] is not itself a []bigquery.Value,
\* values = []bigquery.Value{values}
WrapRows(values) ==
    IF Len(values) > 0 /\ ~IsSlice(values[1])
      THEN <<Slice(values)>>
      ELSE values

\* mutant: the token is built with a default (empty) schema
NestedValue_DefaultSchema(column, value) ==
    IF IsSlice(value)
      THEN bigQueryReroutedColumn(WrapRows(value.elems), <<>>)
      ELSE value

\* the value the adaptor stage receives for a column with a nested schema
NestedValue(column, value) ==
    IF IsSlice(value)
      THEN bigQueryReroutedColumn(WrapRows(value.elems), column.Schema)
      ELSE value

\* mutant: the early return for an empty nested schema is gone, so that the
\* adaptor also runs for such a column
NestedAndAdapt_NoEarlyReturn(column, value) ==
    LET working == IF Len(column.Schema) = 0 THEN value
                   ELSE NestedValue(column, value)
    IN  IF column.Adaptor # "nil" THEN AdaptValue(column.Adaptor, working)
        ELSE Ok(working)

\* the stages after temporal coercion, the same text in the three versions
NestedAndAdapt(column, value) ==
    IF Len(column.Schema) = 0 THEN Ok(value)
    ELSE IF column.Adaptor # "nil"
      THEN AdaptValue(column.Adaptor, NestedValue(column, value))
    ELSE Ok(NestedValue(column, value))

DateToTime(civilDate) ==
    time_Date(civilDate.Year, civilDate.Month, civilDate.Day, 0, 0, 0, 0)

\* mutant: the nanoseconds are dropped
DateTimeToTime_NoNanos(civilDateTime) ==
    time_Date(civilDateTime.Date.Year, civilDateTime.Date.Month,
              civilDateTime.Date.Day, civilDateTime.Time.Hour,
              civilDateTime.Time.Minute, civilDateTime.Time.Second, 0)

DateTimeToTime(civilDateTime) ==
    time_Date(civilDateTime.Date.Year, civilDateTime.Date.Month,
              civilDateTime.Date.Day, civilDateTime.Time.Hour,
              civilDateTime.Time.Minute, civilDateTime.Time.Second,
              civilDateTime.Time.Nanosecond)

\* src/driver/columns.go: TIME becomes a time.Time on today's date
TimeToTimeToday(civilTime, now) ==
    time_Date(now.Year, now.Month, now.Day, civilTime.Hour, civilTime.Minute,
              civilTime.Second, civilTime.Nanosecond)

\* src/unnamed/part_000: TIME becomes a string in BigQueryTimeLayout
TimeToString(civilTime) ==
    FormatTimeLayout(time_Date(2000, 1, 1, civilTime.Hour, civilTime.Minute,
                               civilTime.Second, civilTime.Nanosecond))

ConvertValue_columns(column, value, now) ==
    IF column.FieldType = "DATE" /\ value.kind = "civil.Date"
      THEN Ok(DateToTime(value))
    ELSE IF column.FieldType = "TIME" /\ value.kind = "civil.Time"
      THEN Ok(TimeToTimeToday(value, now))
    ELSE IF column.FieldType = "DATETIME" /\ value.kind = "civil.DateTime"
      THEN Ok(DateTimeToTime(value))
    ELSE NestedAndAdapt(column, value)

ConvertValue_part000(column, value) ==
    IF column.FieldType = "DATE" /\ value # Nil /\ value.kind = "civil.Date"
      THEN Ok(DateToTime(value))
    ELSE IF column.FieldType = "DATETIME" /\ value # Nil
            /\ value.kind = "civil.DateTime"
      THEN Ok(DateTimeToTime(value))
    ELSE IF column.FieldType = "TIME" /\ value # Nil /\ value.kind = "civil.Time"
      THEN Ok(TimeToString(value))
    ELSE NestedAndAdapt(column, value)

ConvertValue_statement(column, value) == NestedAndAdapt(column, value)

ConvertValue(v, column, value, now) ==
    IF v = "columns" THEN ConvertValue_columns(column, value, now)
    ELSE IF v = "part000" THEN ConvertValue_part000(column, value)
    ELSE ConvertValue_statement(column, value)

\* bigQueryColumns.ConvertColumnValue(index, value), index counted from 0
ConvertColumnValue(v, columns, index, value, now) ==
    IF index > -1 /\ Len(columns.columns) > index
      THEN ConvertValue(v, columns.columns[index + 1], value, now)
      ELSE Ok(value)

\* one bigQueryColumn, as the version v declares it
bigQueryColumn(v, name, schema, columnAdaptor, fieldType) ==
    IF v = "statement"
      THEN [Name |-> name, Schema |-> schema, Adaptor |-> columnAdaptor]
      ELSE [Name |-> name, Schema |-> schema, Adaptor |-> columnAdaptor,
            FieldType |-> fieldType]

\* mutant: the column adaptor is not resolved
createBigQuerySchema_NoAdaptor(v, schema, schemaAdaptor) ==
    [names |-> [i \in 1..Len(schema) |-> schema[i].Name],
     columns |-> [i \in 1..Len(schema) |->
        bigQueryColumn(v, schema[i].Name, schema[i].Schema, "nil",
                       schema[i].Type)]]

\* createBigQuerySchema(schema, schemaAdaptor)
createBigQuerySchema(v, schema, schemaAdaptor) ==
    [names |-> [i \in 1..Len(schema) |-> schema[i].Name],
     columns |-> [i \in 1..Len(schema) |->
        bigQueryColumn(v, schema[i].Name, schema[i].Schema,
                       IF schemaAdaptor.isNil THEN "nil"
                       ELSE GetColumnAdaptor(schemaAdaptor, schema[i].Name),
                       schema[i].Type)]]

----------------------------------------------------------------------------
(* Source schemas (bigquery.Schema) and raw values used as inputs *)

FieldSchema(name, type, schema) == [Name |-> name, Type |-> type, Schema |-> schema]

LeafSchema == <<FieldSchema("leaf", "STRING", <<>>)>>
MidSchema == <<FieldSchema("tag", "STRING", <<>>),
               FieldSchema("sub", "RECORD", LeafSchema)>>
TopSchema == <<FieldSchema("id", "STRING", <<>>),
               FieldSchema("tags", "RECORD", MidSchema),
               FieldSchema("day", "DATE", <<>>),
               FieldSchema("at", "TIME", <<>>)>>

FieldTypes == {"DATE", "TIME", "DATETIME", "STRING", "RECORD"}
ColumnAdaptors == {"nil", "wrap", "fail"}

SomeDate == CivilDate(2024, 2, 29)
SomeTime == CivilTime(23, 59, 58, 123456789)
SomeDateTime == CivilDateTime(CivilDate(2023, 12, 31), CivilTime(7, 5, 9, 999999999))

RawValues ==
    { Nil, Str(<<"a">>), SomeDate, SomeTime, CivilTime(0, 0, 0, 0), SomeDateTime,
      Slice(<<>>),
      Slice(<<Str(<<"a">>), Str(<<"b">>)>>),
      Slice(<<Nil>>),
      Slice(<<Slice(<<Str(<<"a">>), Str(<<"b">>)>>),
              Slice(<<Str(<<"c">>), Str(<<"d">>)>>)>>),
      Slice(<<Slice(<<>>)>>) }

\* the column descriptors createBigQuerySchema can build in version v
ConvColumns(v) ==
    { bigQueryColumn(v, "c", s, a, t) :
        s \in {<<>>, LeafSchema, MidSchema}, a \in ColumnAdaptors, t \in FieldTypes }

ConvInputs(v) == [column : ConvColumns(v), value : RawValues]

----------------------------------------------------------------------------
(* State *)

NoConv == [value |-> Nil, err |-> "none"]
NoRows == [source |-> "none"]
NoCall == [op |-> "none"]
NoRow == [state |-> "none"]

DriverInit ==
    /\ rows = NoRows
    /\ held = Nil
    /\ last = NoCall
    /\ lastRow = NoRow
    /\ sent = {}
    /\ pending = NoCall
    /\ cancelled = FALSE

----------------------------------------------------------------------------
(* SpecConvert: ConvertValue as a function of (column, raw value), under a *)
(* clock that advances between calls                                       *)

InitConvert ==
    /\ variant \in Variants
    /\ clock = 1
    /\ input \in ConvInputs(variant)
    /\ conv = NoConv
    /\ first = NoConv
    /\ DriverInit

\* column.ConvertValue(value)
Convert ==
    /\ conv' = ConvertValue(variant, input.column, input.value, Now(clock))
    /\ first' = IF first = NoConv THEN conv' ELSE first
    /\ UNCHANGED <<variant, clock, input, driverVars>>

\* midnight passes
Tick ==
    /\ clock < 1 + MaxTicks
    /\ clock' = clock + 1
    /\ UNCHANGED <<variant, convVars, driverVars>>

NextConvert == Convert \/ Tick

SpecConvert == InitConvert /\ [][NextConvert]_vars

----------------------------------------------------------------------------
(* The statement entry points and the cursor.  One caller drives the       *)
(* statement and its cursor synchronously: while an entry point waits for  *)
(* query.Read nothing else runs except the cancellation of its context.    *)

S(c) == Str(<<c>>)

\* what the remote table holds: rows of TopSchema (id, tags, day, at)
RemoteRows ==
    << Slice(<< S("1"),
                Slice(<< Slice(<< S("x"), Slice(<< Slice(<<S("p")>>),
                                                   Slice(<<S("q")>>) >>) >>),
                         Slice(<< S("y"), Slice(<<S("r")>>) >>) >>),
                SomeDate, SomeTime >>),
       Slice(<< S("2"), Slice(<< S("z"), Nil >>), Nil, Nil >>) >>

\* what adaptor.GetSchemaAdaptor(ctx) can return for the caller's context
CtxAdaptors ==
    { NilSchemaAdaptor,
      SchemaAdaptor(<<>>),
      SchemaAdaptor(<< <<"id", "wrap">>, <<"tags", "wrap">>, <<"sub", "wrap">> >>) }

\* the bind arguments of one call: the held value and a plain string
ArgValues == {held, S("a")}
ArgLists == UNION { [1..n -> ArgValues] : n \in 0..MaxArgs }

\* createSourceFromColumn(schema, values): an in-memory row source
createSourceFromColumn(schema, values) ==
    [source |-> "memory", schema |-> schema, values |-> values, position |-> 0]

\* createSourceFromRowIterator(rowIterator, schemaAdaptor): a row source over
\* the remote cursor, its schema built from the iterator's schema
createSourceFromRowIterator(v, schemaAdaptor) ==
    [source |-> "remote",
     schema |-> createBigQuerySchema(v, TopSchema, schemaAdaptor),
     values |-> RemoteRows, position |-> 0]

\* mutant: the schema adaptor is looked for before the argument's type
QueryContextReroute_AdaptorFirst(v, args, schemaAdaptor) ==
    IF Len(args) < 1
      THEN [rows |-> NoRows, err |-> "expected a rerouting argument"]
    ELSE IF schemaAdaptor.isNil
      THEN [rows |-> NoRows, err |-> "expected a rerouting schema adaptor"]
    ELSE IF ~IsToken(args[1])
      THEN [rows |-> NoRows, err |-> "expected a rerouting argument with rows"]
    ELSE [rows |-> createSourceFromColumn(
                       createBigQuerySchema(v, args[1].schema, schemaAdaptor),
                       args[1].values),
          err |-> "nil"]

\* mutant: any number of arguments other than one is refused
QueryContextReroute_ExactlyOne(v, args, schemaAdaptor) ==
    IF Len(args) # 1
      THEN [rows |-> NoRows, err |-> "expected a rerouting argument"]
    ELSE IF ~IsToken(args[1])
      THEN [rows |-> NoRows, err |-> "expected a rerouting argument with rows"]
    ELSE IF schemaAdaptor.isNil
      THEN [rows |-> NoRows, err |-> "expected a rerouting schema adaptor"]
    ELSE [rows |-> createSourceFromColumn(
                       createBigQuerySchema(v, args[1].schema, schemaAdaptor),
                       args[1].values),
          err |-> "nil"]

\* QueryContext, the branch statement.query == adaptor.RerouteQuery
QueryContextReroute(v, args, schemaAdaptor) ==
    IF Len(args) < 1
      THEN [rows |-> NoRows, err |-> "expected a rerouting argument"]
    ELSE IF ~IsToken(args[1])
      THEN [rows |-> NoRows, err |-> "expected a rerouting argument with rows"]
    ELSE IF schemaAdaptor.isNil
      THEN [rows |-> NoRows, err |-> "expected a rerouting schema adaptor"]
    ELSE [rows |-> createSourceFromColumn(
                       createBigQuerySchema(v, args[1].schema, schemaAdaptor),
                       args[1].values),
          err |-> "nil"]

\* the context each entry point hands to query.Read
ReadContext(op) == IF op = "ExecContext" THEN "ctx" ELSE "Background"

\* the record of a finished reroute: what QueryContext was given (the number
\* of bind arguments and the first of them, the only ones it reads, and the
\* schema adaptor of its context) and what it returned
RerouteCall(nargs, arg0, schemaAdaptor, got, err, rws) ==
    [op |-> "QueryContext", query |-> RerouteQuery, nargs |-> nargs,
     arg0 |-> arg0, adaptor |-> schemaAdaptor, got |-> got, err |-> err,
     rows |-> rws, cancelled |-> FALSE]

\* the record of a finished call that went to the remote executor
RemoteCall(op, query, schemaAdaptor, got, err, rws, wasCancelled) ==
    [op |-> op, query |-> query, adaptor |-> schemaAdaptor, got |-> got,
     err |-> err, rows |-> rws, cancelled |-> wasCancelled]

FirstOf(args) == IF Len(args) > 0 THEN args[1] ELSE Nil

\* buildQuery followed by the call of query.Read: the query text goes to the
\* remote executor and the entry point waits for the read.  The bind
\* arguments only become query parameters (buildParameters), which the model
\* does not follow.
StartRead(op, query, schemaAdaptor) ==
    /\ pending = NoCall
    /\ \/ /\ sent' = sent \cup {query}
          /\ pending' = [op |-> op, query |-> query, adaptor |-> schemaAdaptor,
                         readCtx |-> ReadContext(op)]
          /\ last' = NoCall
       \/ /\ last' = RemoteCall(op, query, schemaAdaptor, "none",
                                "buildQuery failed", NoRows, FALSE)
          /\ UNCHANGED <<sent, pending>>
    /\ cancelled' = FALSE
    /\ UNCHANGED <<variant, clock, convVars, rows, held, lastRow>>

\* statement.QueryContext(ctx, args)
QueryContext ==
    \E query \in Queries, schemaAdaptor \in CtxAdaptors :
        IF query = RerouteQuery
          THEN \E args \in ArgLists :
               LET r == QueryContextReroute(variant, args, schemaAdaptor) IN
               /\ pending = NoCall
               /\ last' = RerouteCall(Len(args), FirstOf(args), schemaAdaptor,
                                      IF r.err = "nil" THEN "rows" ELSE "none",
                                      r.err, r.rows)
               /\ rows' = IF r.err = "nil" THEN r.rows ELSE rows
               /\ lastRow' = IF r.err = "nil" THEN NoRow ELSE lastRow
               /\ UNCHANGED <<variant, clock, convVars, held, sent, pending,
                              cancelled>>
          ELSE StartRead("QueryContext", query, schemaAdaptor)

\* statement.ExecContext(ctx, args)
ExecContext ==
    \E query \in Queries : StartRead("ExecContext", query, NilSchemaAdaptor)

\* statement.Exec(args)
Exec ==
    \E query \in Queries : StartRead("Exec", query, NilSchemaAdaptor)

\* statement.Query(args)
Query ==
    \E query \in Queries : StartRead("Query", query, NilSchemaAdaptor)

\* the caller cancels the context it passed, while the read is pending
Cancel ==
    /\ pending # NoCall
    /\ ~cancelled
    /\ cancelled' = TRUE
    /\ UNCHANGED <<variant, clock, convVars, rows, held, last, lastRow, sent,
                   pending>>

\* query.Read(ctx) returns and the entry point builds its result.  A read
\* whose context is cancelled returns the context's error; any read can fail.
ReadReturns ==
    /\ pending # NoCall
    /\ \E remoteOk \in BOOLEAN :
        LET aborted == pending.readCtx = "ctx" /\ cancelled
            err == IF aborted THEN "context canceled"
                   ELSE IF remoteOk THEN "nil" ELSE "remote read failed"
            isQuery == pending.op \in {"QueryContext", "Query"}
            source == createSourceFromRowIterator(variant, pending.adaptor)
        IN  /\ last' = RemoteCall(pending.op, pending.query, pending.adaptor,
                            IF err # "nil" THEN "none"
                            ELSE IF isQuery THEN "rows" ELSE "result",
                            err,
                            IF err = "nil" /\ isQuery THEN source ELSE NoRows,
                            cancelled)
            /\ rows' = IF err = "nil" /\ isQuery THEN source ELSE rows
            /\ lastRow' = IF err = "nil" /\ isQuery THEN NoRow ELSE lastRow
    /\ pending' = NoCall
    /\ cancelled' = FALSE
    /\ UNCHANGED <<variant, clock, convVars, held, sent>>

\* the cells of one row of a row source
Cells(row) == IF IsSlice(row) THEN row.elems ELSE <<row>>

\* the rerouted columns a converted cell gives the caller
TokensOf(result) ==
    IF result.err # "nil" THEN {}
    ELSE IF IsToken(result.value) THEN {result.value}
    ELSE IF result.value.kind = "adapted" /\ IsToken(result.value.of)
      THEN {result.value.of}
    ELSE {}

\* bigQueryRows.Next: the next row is read and every cell goes through
\* schema.ConvertColumnValue(index, cell); the caller may keep a token
RowsNext ==
    /\ pending = NoCall
    /\ rows # NoRows
    /\ rows.position < Len(rows.values)
    /\ LET cells == Cells(rows.values[rows.position + 1])
           out == [i \in 1..Len(cells) |->
                      ConvertColumnValue(variant, rows.schema, i - 1, cells[i],
                                         Now(clock))]
       IN  /\ lastRow' = [state |-> "read", columns |-> rows.schema.columns,
                          cells |-> cells, out |-> out]
           /\ held' \in {held} \cup UNION { TokensOf(out[i]) : i \in 1..Len(cells) }
    /\ rows' = [rows EXCEPT !.position = @ + 1]
    /\ UNCHANGED <<variant, clock, convVars, last, sent, pending, cancelled>>

\* bigQueryRows.Close
RowsClose ==
    /\ pending = NoCall
    /\ rows # NoRows
    /\ rows' = NoRows
    /\ lastRow' = NoRow
    /\ UNCHANGED <<variant, clock, convVars, held, last, sent, pending, cancelled>>

NoInput == [column |-> Nil, value |-> Nil]

Init ==
    /\ variant \in Variants
    /\ clock = 1
    /\ input = NoInput
    /\ conv = NoConv
    /\ first = NoConv
    /\ DriverInit

Next ==
    \/ QueryContext
    \/ ExecContext
    \/ Exec
    \/ Query
    \/ Cancel
    \/ ReadReturns
    \/ RowsNext
    \/ RowsClose

Spec == Init /\ [][Next]_vars

----------------------------------------------------------------------------
(* Claims about the statement entry points, checked under Spec *)

Rerouted == last # NoCall /\ last.op = "QueryContext" /\ last.query = RerouteQuery

\* C1: a reroute query returns no cursor and a distinct error when it has no
\* bind argument, when its first argument is no rerouted column, and when
\* the token is valid but the context carries no schema adaptor.
C1_RerouteErrors ==
    Rerouted =>
        /\ last.nargs = 0 =>
              /\ last.err = "expected a rerouting argument"
              /\ last.rows = NoRows /\ last.got = "none"
        /\ (last.nargs > 0 /\ ~IsToken(last.arg0)) =>
              /\ last.err = "expected a rerouting argument with rows"
              /\ last.rows = NoRows /\ last.got = "none"
        /\ (last.nargs > 0 /\ IsToken(last.arg0) /\ last.adaptor.isNil) =>
              /\ last.err = "expected a rerouting schema adaptor"
              /\ last.rows = NoRows /\ last.got = "none"

C1_Witness ==
    /\ Rerouted
    /\ IsToken(last.arg0)
    /\ last.adaptor.isNil
    /\ last.err = "expected a rerouting schema adaptor"

\* C2: a reroute query with a valid token {values: V, schema: S} and a
\* schema adaptor in the context returns a cursor whose names and column
\* descriptors follow S position by position (name, nested schema, the
\* adaptor resolved for the name) and whose row source stands on V.
C2_RerouteSchema ==
    (Rerouted /\ last.nargs > 0 /\ IsToken(last.arg0) /\ ~last.adaptor.isNil) =>
        LET schema == last.arg0.schema
            cursor == last.rows
        IN  /\ last.err = "nil"
            /\ last.got = "rows"
            /\ Len(cursor.schema.names) = Len(schema)
            /\ Len(cursor.schema.columns) = Len(schema)
            /\ \A i \in 1..Len(schema) :
                  /\ cursor.schema.names[i] = schema[i].Name
                  /\ cursor.schema.columns[i].Name = schema[i].Name
                  /\ cursor.schema.columns[i].Schema = schema[i].Schema
                  /\ cursor.schema.columns[i].Adaptor =
                        GetColumnAdaptor(last.adaptor, schema[i].Name)
            /\ cursor.source = "memory"
            /\ cursor.values = last.arg0.values
            /\ cursor.position = 0

C2_Witness ==
    /\ Rerouted
    /\ last.err = "nil"
    /\ last.arg0.schema = MidSchema
    /\ last.rows.schema.names = <<"tag", "sub">>
    /\ last.rows.schema.columns[2].Adaptor = "wrap"

\* C4 as stated: a statement whose text is the reroute sentinel never goes
\* to the remote executor, whichever entry point runs it.
C4_SentinelNeverSent == RerouteQuery \notin sent

\* C5 as stated: with any number of bind arguments other than one, a reroute
\* query fails with the missing-argument error and returns no cursor.
C5_ExactlyOneArgument ==
    (Rerouted /\ last.nargs # 1) =>
        /\ last.err = "expected a rerouting argument"
        /\ last.rows = NoRows

\* C5 amended: a reroute query needs at least one bind argument: with none
\* it fails with the missing-argument error and returns no cursor; with two
\* or more it reads the first and ignores the rest, ending as it does when
\* given the first alone.
C5_AtLeastOneArgument ==
    Rerouted =>
        /\ last.nargs = 0 =>
              /\ last.err = "expected a rerouting argument"
              /\ last.rows = NoRows
        /\ last.nargs > 1 =>
              LET alone == QueryContextReroute(variant, <<last.arg0>>,
                                               last.adaptor)
              IN  /\ last.err = alone.err
                  /\ last.rows = alone.rows
                  /\ last.err # "expected a rerouting argument"

C5_Witness ==
    /\ Rerouted
    /\ last.nargs = 2
    /\ IsToken(last.arg0)
    /\ last.err = "nil"
    /\ last.rows.source = "memory"

\* C7 as stated: when the context given to QueryContext or ExecContext is
\* cancelled while the remote read is pending, the call ends with an error
\* and returns neither a cursor nor a result.
C7_CancellationHonoured ==
    (last # NoCall /\ last.op \in {"QueryContext", "ExecContext"}
       /\ last.cancelled) =>
        /\ last.err # "nil"
        /\ last.got = "none"

\* the rerouted column inside a converted cell, if there is one
HasToken(result) == TokensOf(result) # {}

\* C10: at every depth, a rerouted column that convert produces carries the
\* non-empty nested schema of the column that produced it, a column with an
\* empty nested schema produces none, and a reroute builds its columns from
\* exactly the schema of the token it is given.
C10_TokenSchema ==
    /\ lastRow # NoRow =>
          \A i \in 1..Len(lastRow.out) :
              IF i <= Len(lastRow.columns)
                THEN /\ Len(lastRow.columns[i].Schema) = 0 =>
                            ~HasToken(lastRow.out[i])
                     /\ \A t \in TokensOf(lastRow.out[i]) :
                            /\ Len(t.schema) > 0
                            /\ t.schema = lastRow.columns[i].Schema
                ELSE ~HasToken(lastRow.out[i])
    /\ IsToken(held) => Len(held.schema) > 0
    /\ (Rerouted /\ last.err = "nil") =>
          /\ Len(last.arg0.schema) > 0
          /\ Len(last.rows.schema.columns) = Len(last.arg0.schema)
          /\ \A i \in 1..Len(last.arg0.schema) :
                /\ last.rows.schema.columns[i].Name = last.arg0.schema[i].Name
                /\ last.rows.schema.columns[i].Schema
                      = last.arg0.schema[i].Schema

\* a row of a rerouted cursor (one level down) yields a token for its own
\* nested column
C10_Witness ==
    /\ Rerouted
    /\ last.err = "nil"
    /\ last.arg0.schema = MidSchema
    /\ lastRow # NoRow
    /\ lastRow.columns = last.rows.schema.columns
    /\ \E t \in TokensOf(lastRow.out[2]) : t.schema = LeafSchema

----------------------------------------------------------------------------
(* Claims about ConvertValue, checked under SpecConvert *)

Converted == conv # NoConv

\* the temporal stage returned: the column is tagged DATE / TIME / DATETIME
\* and the raw value has the matching civil type
Coerced ==
    /\ variant # "statement"
    /\ <<input.column.FieldType, input.value.kind>> \in
          { <<"DATE", "civil.Date">>, <<"TIME", "civil.Time">>,
            <<"DATETIME", "civil.DateTime">> }

C3_Pre ==
    /\ Converted
    /\ Len(input.column.Schema) > 0
    /\ ~Coerced
    /\ IsSlice(input.value)
    /\ Len(input.value.elems) > 0

\* the values the claim expects in the token
C3_Values ==
    IF IsSlice(input.value.elems[1]) THEN input.value.elems ELSE <<input.value>>

C3_Token ==
    [kind |-> "bigQueryReroutedColumn", values |-> C3_Values,
     schema |-> input.column.Schema]

\* C3 as stated: for a column with a non-empty nested schema and no temporal
\* match, convert of a non-empty sequence returns a NestedToken whose values
\* are the input unchanged when its first element is a sequence, and the
\* input wrapped once otherwise.
C3_ReturnsToken ==
    C3_Pre => /\ conv.err = "nil"
              /\ IsToken(conv.value)
              /\ conv.value.values = C3_Values

\* C3 amended: the token with those values is what convert returns when the
\* column has no adaptor, and what convert hands to the adaptor (whose result
\* it returns) when the column has one.
C3_TokenReturnedOrAdapted ==
    C3_Pre => IF input.column.Adaptor = "nil"
                THEN conv = Ok(C3_Token)
                ELSE conv = AdaptValue(input.column.Adaptor, C3_Token)

C3_Witness ==
    /\ C3_Pre
    /\ ~IsSlice(input.value.elems[1])
    /\ Len(input.value.elems) = 2
    /\ input.column.Adaptor = "nil"
    /\ conv.value.values = <<input.value>>

\* C6 as stated: two convert calls with the same column descriptor and the
\* same raw value return the same result, whenever they run.
C6_Deterministic == first # NoConv => conv = first

\* the working value of the stages after temporal coercion
C8_Working ==
    IF Len(input.column.Schema) = 0 THEN input.value
    ELSE NestedValue(input.column, input.value)

\* C8 as stated: on a value that was not temporally coerced, a resolved
\* adaptor is invoked on the working value and its (value, error) returned,
\* for an empty nested schema as for a non-empty one; without an adaptor the
\* working value is returned with no error.
C8_AdaptorAlwaysInvoked ==
    (Converted /\ ~Coerced) =>
        IF input.column.Adaptor # "nil"
          THEN conv = AdaptValue(input.column.Adaptor, C8_Working)
          ELSE conv = Ok(C8_Working)

\* C8 amended: the adaptor is invoked (and its result returned) only for a
\* column with a non-empty nested schema; for a column with an empty nested
\* schema the raw value is returned unchanged with no error whether or not
\* an adaptor was resolved; without an adaptor the working value is returned
\* with no error.
C8_AdaptorInvokedWhenNested ==
    (Converted /\ ~Coerced) =>
        IF input.column.Adaptor # "nil" /\ Len(input.column.Schema) > 0
          THEN conv = AdaptValue(input.column.Adaptor, C8_Working)
          ELSE conv = Ok(C8_Working)

C8_Witness ==
    /\ Converted
    /\ ~Coerced
    /\ input.column.Adaptor = "wrap"
    /\ Len(input.column.Schema) = 0
    /\ conv = Ok(input.value)

\* C9: a DATE or DATETIME column whose raw value has the civil shape yields
\* the UTC timestamp with the same calendar (and clock) fields and no error,
\* whatever the column's adaptor and nested schema; a nil or differently
\* shaped raw value goes on unmodified to the nested and adaptor stages.
C9_TemporalCoercion ==
    (Converted /\ variant # "statement"
       /\ input.column.FieldType \in {"DATE", "DATETIME"}) =>
        LET value == input.value IN
        IF input.column.FieldType = "DATE" /\ value.kind = "civil.Date"
          THEN conv = Ok([kind |-> "time.Time", Year |-> value.Year,
                          Month |-> value.Month, Day |-> value.Day,
                          Hour |-> 0, Minute |-> 0, Second |-> 0,
                          Nanosecond |-> 0, Loc |-> "UTC"])
        ELSE IF input.column.FieldType = "DATETIME"
                /\ value.kind = "civil.DateTime"
          THEN conv = Ok([kind |-> "time.Time", Year |-> value.Date.Year,
                          Month |-> value.Date.Month, Day |-> value.Date.Day,
                          Hour |-> value.Time.Hour,
                          Minute |-> value.Time.Minute,
                          Second |-> value.Time.Second,
                          Nanosecond |-> value.Time.Nanosecond, Loc |-> "UTC"])
        ELSE conv = NestedAndAdapt(input.column, value)

C9_Witness ==
    /\ Converted
    /\ variant # "statement"
    /\ input.column.FieldType = "DATETIME"
    /\ input.value.kind = "civil.DateTime"
    /\ input.column.Adaptor = "wrap"
    /\ Len(input.column.Schema) > 0
    /\ conv.value.kind = "time.Time"

====
